---- MODULE Spec2Model ----
(***************************************************************************)
(* Model of src/app.py: the CSV batch endpoint process_csv and the two      *)
(* lifecycle operations activate_user and deactivate_user, run against a    *)
(* remote directory whose replies (status, body, raised errors) are         *)
(* nondeterministic.  Every remote call is one atomic step (the code blocks  *)
(* on requests.get/put/delete), together with the local computation that    *)
(* follows it up to the next call or the return.                            *)
(***************************************************************************)
EXTENDS Integers, Sequences, FiniteSets, TLC

\* ------------------------------------------------------------------ bounds
MaxRows == 2
MaxTeams == 2

\* ------------------------------------------------------- the environment
\* Browser sessions (each has its own Flask session cookie).
Sessions == {1, 2}
\* Sessions that post a batch under Spec.
BatchSessions == {1}

\* Python's None, and also the empty dict: both are falsy.
None == [k \in {} |-> k]

\* A blank CSV cell: pandas yields float('nan'), which is not a str.
NaN == "<float nan>"

\* Values that can appear in the 'username' column.
Usernames == {"alice", "ALICE2", NaN}

UsernameLists == UNION {[1..n -> Usernames] : n \in 0..MaxRows}

\* Values of the form field operation_type ("purge" stands for any other).
OperationTypes == {"activation", "deactivation", "purge"}

\* What the upload looks like to lines 58-72.
Uploads == {"nofile", "noname", "notcsv", "unreadable", "nocolumn", "csv"}

\* Users the directory holds, by Id, with their canonical UserName.
DirIds == {1, 2}
DirUserName == [i \in DirIds |-> IF i = 1 THEN "Alice" ELSE "alice2"]
\* The directory when the application starts: user 1 inactive, user 2 active.
DirInitiallyActive == [i \in DirIds |-> i = 2]

\* HTTP statuses a remote call of each kind can return (a removal answers
\* 204 No Content or is refused).
Statuses(kind) ==
  CASE kind = "update" -> {200, 201, 204, 500}
    [] kind = "remove" -> {204, 500}
    [] OTHER           -> {200, 500}

\* response.text of a reply with the given status.
ResponseText(status) ==
  CASE status = 200 -> "OK"
    [] status = 201 -> "Created"
    [] status = 204 -> ""
    [] OTHER        -> "Internal Server Error"

\* str(e) of the errors that can be raised.
ConnectionErrorText == "connection failed"
JSONDecodeErrorText == "Expecting value"
AttributeErrorText == "'float' object has no attribute 'lower'"

\* str.lower() on the names of this model.
Lower(str) ==
  CASE str = "Alice"  -> "alice"
    [] str = "ALICE2" -> "alice2"
    [] OTHER          -> str

\* dict.get(key, default)
Get(dict, key, default) == IF key \in DOMAIN dict THEN dict[key] ELSE default

\* A search reply that reports the Active flag the user had at the start.
SearchRecordStale(i, active) ==
  [Id |-> i, UserName |-> DirUserName[i], Active |-> DirInitiallyActive[i]]

\* The partial record of user i in a search reply.
SearchRecord(i, active) ==
  [Id |-> i, UserName |-> DirUserName[i], Active |-> active[i]]

\* The candidate lists a search can return: any users, in any order.
CandidateLists(active) ==
  {<<>>} \cup {<<SearchRecord(i, active)>> : i \in DirIds}
         \cup {<<SearchRecord(p[1], active), SearchRecord(p[2], active)>> :
                 p \in {q \in DirIds \X DirIds : q[1] # q[2]}}

\* The full record of user i ...
FullRecord(i, active) ==
  [Id |-> i, UserName |-> DirUserName[i], FirstName |-> "Al",
   LastName |-> "Ice", Email |-> "al@example.org", Active |-> active[i],
   Region |-> "EMEA", Area |-> "North", Country |-> "NO",
   AccessLevel |-> "Learner"]

\* ... and a record without LastName, Email and the location fields.
SparseRecord(i, active) ==
  [k \in {"Id", "UserName", "FirstName", "Active", "AccessLevel"} |->
     FullRecord(i, active)[k]]

\* The records a detail fetch of user i can return.
DetailRecords(i, active) == {FullRecord(i, active), SparseRecord(i, active)}

\* The team listings: the first n teams, or all of them in reverse.
TeamRecord(t) == [Id |-> t, Name |-> "team"]
TeamLists ==
  {[i \in 1..n |-> TeamRecord(i)] : n \in 0..MaxTeams}
    \cup {[i \in 1..MaxTeams |-> TeamRecord(MaxTeams + 1 - i)]}

\* --------------------------------------------------------------- state
VARIABLES
  dirActive,       \* the directory: Id -> Active flag
  pc,              \* per session: where the request handler is
  operation_type,  \* per session: request.form.get("operation_type")
  usernames,       \* per session: df['username'].tolist()
  row,             \* per session: 1-based position of the for loop
  results,         \* per session: the list 'results'
  user,            \* per session: local 'user' of the running operation
  user_data,       \* per session: local 'user_data'
  update_data,     \* per session: local 'update_data'
  teams,           \* per session: local 'teams'
  team_i,          \* per session: position of 'for team in teams'
  outstanding,     \* per session: remote calls sent and not yet answered
  calls,           \* per session: remote calls answered for the row in hand
  warnings,        \* per session: logger.warning records of the row in hand
  reply,           \* per session: the HTTP reply of process_csv
  session          \* per session: the Flask session dict

vars == <<dirActive, pc, operation_type, usernames, row, results, user,
          user_data, update_data, teams, team_i, outstanding, calls,
          warnings, reply, session>>

locals == <<user, user_data, update_data, teams, team_i>>
request == <<operation_type, usernames>>

\* A remote call in the log: what was asked (kind, user id, team id, request
\* body) and what came back (status, and <<json>> when response.json() gave
\* a value, <<>> when it was not asked or failed).  Status Raised stands for
\* a call that raised instead of returning.
Raised == -1
NoJson == <<>>
Call(kind, id, team, sent, status, got) ==
  [kind |-> kind, id |-> id, team |-> team, sent |-> sent,
   status |-> status, got |-> got]

NoReply == [code |-> 0, success |-> FALSE, error |-> "", results |-> <<>>]
ErrorReply(code, error) ==
  [code |-> code, success |-> FALSE, error |-> error, results |-> <<>>]

Init ==
  /\ dirActive = DirInitiallyActive
  /\ pc = [s \in Sessions |-> "idle"]
  /\ operation_type = [s \in Sessions |-> ""]
  /\ usernames = [s \in Sessions |-> <<>>]
  /\ row = [s \in Sessions |-> 1]
  /\ results = [s \in Sessions |-> <<>>]
  /\ user = [s \in Sessions |-> None]
  /\ user_data = [s \in Sessions |-> None]
  /\ update_data = [s \in Sessions |-> None]
  /\ teams = [s \in Sessions |-> <<>>]
  /\ team_i = [s \in Sessions |-> 1]
  /\ outstanding = [s \in Sessions |-> 0]
  /\ calls = [s \in Sessions |-> <<>>]
  /\ warnings = [s \in Sessions |-> <<>>]
  /\ reply = [s \in Sessions |-> NoReply]
  /\ session = [s \in Sessions |-> None]

\* ------------------------------------------------------ pure functions
\* The OperationResult dict the two operations return.
Result(username, success, message) ==
  [username |-> username, success |-> success, message |-> message]

\* allowed = ["Id", "FirstName", "LastName", "Email", "Active", "UserName"]
allowed == <<"Id", "FirstName", "LastName", "Email", "Active", "UserName">>
Range(seq) == {seq[i] : i \in 1..Len(seq)}

\* sanitize_user_data without the projection on the allowed fields.
sanitize_passthrough(data, active_status) ==
  [k \in DOMAIN data \cup {"Active"} |->
     IF k = "Active" THEN active_status ELSE data[k]]

\* sanitize_user_data(user_data, active_status)
sanitize_user_data(data, active_status) ==
  [k \in (Range(allowed) \cap DOMAIN data) \cup {"Active"} |->
     IF k = "Active" THEN active_status ELSE data[k]]

\* The location clearing with the Country line left out.
clear_location_partial(data) ==
  [k \in DOMAIN data \cup {"Region", "Area"} |->
     IF k \in {"Region", "Area"} THEN "" ELSE data[k]]

\* update_data["Region"] = ""; update_data["Area"] = ""; update_data["Country"] = ""
location_fields == {"Region", "Area", "Country"}
clear_location(data) ==
  [k \in DOMAIN data \cup location_fields |->
     IF k \in location_fields THEN "" ELSE data[k]]

\* username.lower() raises AttributeError when the username is not a str; the
\* generator evaluates it once per candidate, so only when there is one.
MatchRaises(users, username) == users # <<>> /\ username = NaN

\* The lookup taking the first candidate whatever its UserName.
FindUserFirst(users, username) ==
  IF users = <<>> THEN None ELSE users[1]

\* next((u for u in users if u.get("UserName", "").lower() == username.lower()), None)
FindUser(users, username) ==
  LET hits == {i \in 1..Len(users) :
                 Lower(Get(users[i], "UserName", "")) = Lower(username)}
  IN IF hits = {} THEN None
     ELSE users[CHOOSE i \in hits : \A j \in hits : i <= j]

\* activate_user refusing the inactive users instead of the active ones.
AlreadyActiveInverted(found) == ~Get(found, "Active", FALSE)

\* activate_user without its duplicate guard.
AlreadyActiveUnchecked(found) == FALSE

\* if user.get("Active", False): the duplicate guard of activate_user
AlreadyActive(found) == Get(found, "Active", FALSE)

\* deactivate_user without its duplicate guard.
AlreadyInactiveUnchecked(found) == FALSE

\* if not user.get("Active", True): the duplicate guard of deactivate_user
AlreadyInactive(found) == ~Get(found, "Active", TRUE)

\* An update check that accepts 200 only.
UpdateOkOnly200(status) == status = 200

\* An update whose status is not checked.
UpdateOkUnchecked(status) == TRUE

\* update_response.status_code in [200, 201, 204]
UpdateOk(status) == status \in {200, 201, 204}

\* remove_response.status_code in [200, 204]
RemoveOk(status) == status \in {200, 204}

\* The except clause of activate_user / deactivate_user.
ActivateError(username, text) == Result(username, FALSE, "Error: " \o text)
DeactivateError(username, text) == Result(username, FALSE, "Error: " \o text)

AlreadyActiveMessage ==
  "Error: User is already active. Duplicate activation attempt."
AlreadyInactiveMessage ==
  "Error: User is already inactive. Duplicate deactivation attempt."
ActivatedMessage == "User activated successfully"
DeactivatedMessage ==
  "User deactivated, removed from all teams, and profile data cleared"

\* ------------------------------------------------------ step building
\* Lines 189-192: the replies that are only logged as a warning.
Warns(call) ==
  \/ call.kind = "teams" /\ call.status \notin {200, Raised}
  \/ call.kind = "remove" /\ call.status # Raised /\ ~RemoveOk(call.status)

\* The outstanding call is answered (or raises): it is appended to the row's
\* log, and so is its warning.
Log(s, call) ==
  /\ outstanding' = [outstanding EXCEPT ![s] = @ - 1]
  /\ calls' = [calls EXCEPT ![s] = Append(@, call)]
  /\ warnings' = [warnings EXCEPT ![s] =
                    IF Warns(call)
                    THEN Append(@, <<call.kind, call.team,
                                     ResponseText(call.status)>>)
                    ELSE @]

\* A loop that appends the successful results only.
RowDoneDropFailed(s, result) ==
  /\ results' = [results EXCEPT ![s] =
                   IF result.success THEN Append(@, result) ELSE @]
  /\ row' = [row EXCEPT ![s] = @ + 1]
  /\ pc' = [pc EXCEPT ![s] = "loop"]

\* A loop that a failed row ends.
RowDoneAbort(s, result) ==
  /\ results' = [results EXCEPT ![s] = Append(@, result)]
  /\ row' = [row EXCEPT ![s] =
               IF result.success THEN @ + 1 ELSE Len(usernames[s]) + 1]
  /\ pc' = [pc EXCEPT ![s] = "loop"]

\* results.append(result), and the for loop moves to the next username.
\* The loop handing a failed row to the operation again.
RowDoneRetry(s, result) ==
  /\ results' = [results EXCEPT ![s] =
                   IF result.success THEN Append(@, result) ELSE @]
  /\ row' = [row EXCEPT ![s] = IF result.success THEN @ + 1 ELSE @]
  /\ pc' = [pc EXCEPT ![s] = "loop"]

RowDone(s, result) ==
  /\ results' = [results EXCEPT ![s] = Append(@, result)]
  /\ row' = [row EXCEPT ![s] = @ + 1]
  /\ pc' = [pc EXCEPT ![s] = "loop"]

\* The operation returns: its frame (the locals) is gone.
Return(s, result) ==
  /\ RowDone(s, result)
  /\ user' = [user EXCEPT ![s] = None]
  /\ user_data' = [user_data EXCEPT ![s] = None]
  /\ update_data' = [update_data EXCEPT ![s] = None]
  /\ teams' = [teams EXCEPT ![s] = <<>>]
  /\ team_i' = [team_i EXCEPT ![s] = 1]

\* The operation goes on to its next remote call.
Goto(s, label) ==
  /\ pc' = [pc EXCEPT ![s] = label]
  /\ UNCHANGED <<results, row>>

\* --------------------------------------------------------- process_csv
\* Lines 56-75: the request is read and validated, the CSV parsed.
Request(s) ==
  /\ pc[s] = "idle"
  /\ \E op \in OperationTypes, upload \in Uploads :
       /\ operation_type' = [operation_type EXCEPT ![s] = op]
       /\ \/ /\ upload = "nofile"
             /\ reply' = [reply EXCEPT ![s] = ErrorReply(400, "No file part")]
             /\ pc' = [pc EXCEPT ![s] = "done"]
             /\ UNCHANGED usernames
          \/ /\ upload = "noname"
             /\ reply' = [reply EXCEPT ![s] = ErrorReply(400, "No selected file")]
             /\ pc' = [pc EXCEPT ![s] = "done"]
             /\ UNCHANGED usernames
          \/ /\ upload = "notcsv"
             /\ reply' = [reply EXCEPT ![s] =
                            ErrorReply(400, "File must be CSV format")]
             /\ pc' = [pc EXCEPT ![s] = "done"]
             /\ UNCHANGED usernames
          \/ /\ upload = "unreadable"
             /\ reply' = [reply EXCEPT ![s] = ErrorReply(500, "parse error")]
             /\ pc' = [pc EXCEPT ![s] = "done"]
             /\ UNCHANGED usernames
          \/ /\ upload = "nocolumn"
             /\ reply' = [reply EXCEPT ![s] =
                            ErrorReply(400, "CSV must contain a 'username' column")]
             /\ pc' = [pc EXCEPT ![s] = "done"]
             /\ UNCHANGED usernames
          \/ /\ upload = "csv"
             /\ \E names \in UsernameLists :
                  usernames' = [usernames EXCEPT ![s] = names]
             /\ pc' = [pc EXCEPT ![s] = "loop"]
             /\ UNCHANGED reply
  /\ results' = [results EXCEPT ![s] = <<>>]
  /\ row' = [row EXCEPT ![s] = 1]
  /\ calls' = [calls EXCEPT ![s] = <<>>]
  /\ warnings' = [warnings EXCEPT ![s] = <<>>]
  /\ UNCHANGED <<dirActive, locals, outstanding, session>>

\* Lines 77-79: the next username goes to activate_user.
LoopActivate(s) ==
  /\ pc[s] = "loop"
  /\ row[s] <= Len(usernames[s])
  /\ operation_type[s] = "activation"
  /\ pc' = [pc EXCEPT ![s] = "act_search"]
  /\ calls' = [calls EXCEPT ![s] = <<>>]
  /\ warnings' = [warnings EXCEPT ![s] = <<>>]
  /\ UNCHANGED <<dirActive, request, row, results, locals, outstanding, reply,
                 session>>

\* Lines 80-81: the next username goes to deactivate_user.
LoopDeactivate(s) ==
  /\ pc[s] = "loop"
  /\ row[s] <= Len(usernames[s])
  /\ operation_type[s] # "activation"
  /\ operation_type[s] = "deactivation"
  /\ pc' = [pc EXCEPT ![s] = "deact_search"]
  /\ calls' = [calls EXCEPT ![s] = <<>>]
  /\ warnings' = [warnings EXCEPT ![s] = <<>>]
  /\ UNCHANGED <<dirActive, request, row, results, locals, outstanding, reply,
                 session>>

\* Lines 82-83: any other operation type ends the request with an error.
LoopInvalid(s) ==
  /\ pc[s] = "loop"
  /\ row[s] <= Len(usernames[s])
  /\ operation_type[s] # "activation"
  /\ operation_type[s] # "deactivation"
  /\ reply' = [reply EXCEPT ![s] = ErrorReply(400, "Invalid operation type")]
  /\ pc' = [pc EXCEPT ![s] = "done"]
  /\ UNCHANGED <<dirActive, request, row, results, locals, outstanding, calls,
                 warnings, session>>

\* Lines 86-88: the loop is over; the outcome is stored and returned.
Finish(s) ==
  /\ pc[s] = "loop"
  /\ row[s] > Len(usernames[s])
  /\ session' = [session EXCEPT ![s] =
                   [results |-> results[s],
                    operation_type |->
                      IF operation_type[s] = "activation"
                      THEN "Activation" ELSE "Deactivation"]]
  /\ reply' = [reply EXCEPT ![s] =
                 [code |-> 200, success |-> TRUE, error |-> "",
                  results |-> results[s]]]
  /\ pc' = [pc EXCEPT ![s] = "done"]
  /\ calls' = [calls EXCEPT ![s] = <<>>]
  /\ warnings' = [warnings EXCEPT ![s] = <<>>]
  /\ UNCHANGED <<dirActive, request, row, results, locals, outstanding>>

\* ----------------------------------------------------- the remote calls
\* The steps at which the handler is inside requests.get/put/delete.
CallSteps ==
  {"act_search", "act_details", "act_update", "deact_search", "deact_details",
   "deact_update", "deact_teams", "deact_remove"}

\* A client that sends its next request without waiting for the reply.
SendPipelined(s) ==
  /\ pc[s] \in CallSteps
  /\ outstanding[s] <= 1
  /\ outstanding' = [outstanding EXCEPT ![s] = @ + 1]
  /\ UNCHANGED <<dirActive, pc, request, row, results, locals, calls, warnings,
                 reply, session>>

\* requests.get/put/delete sends the request and blocks: the handler does
\* nothing else until the call is answered or raises.
Send(s) ==
  /\ pc[s] \in CallSteps
  /\ outstanding[s] = 0
  /\ outstanding' = [outstanding EXCEPT ![s] = @ + 1]
  /\ UNCHANGED <<dirActive, pc, request, row, results, locals, calls, warnings,
                 reply, session>>

\* ------------------------------------------------------- activate_user
\* Lines 102-117: the search call, the exact match and the duplicate guard.
ActSearch(s) ==
  /\ pc[s] = "act_search"
  /\ outstanding[s] > 0
  /\ LET username == usernames[s][row[s]] IN
       \/ /\ Log(s, Call("search", 0, 0, None, Raised, NoJson))
          /\ Return(s, ActivateError(username, ConnectionErrorText))
       \/ \E status \in Statuses("search") \ {200} :
            /\ Log(s, Call("search", 0, 0, None, status, NoJson))
            /\ Return(s, Result(username, FALSE,
                                "Failed to find user: " \o ResponseText(status)))
       \/ /\ Log(s, Call("search", 0, 0, None, 200, NoJson))
          /\ Return(s, ActivateError(username, JSONDecodeErrorText))
       \/ \E users \in CandidateLists(dirActive) :
            /\ Log(s, Call("search", 0, 0, None, 200, <<users>>))
            /\ IF MatchRaises(users, username)
               THEN Return(s, ActivateError(username, AttributeErrorText))
               ELSE LET found == FindUser(users, username) IN
                    IF found = None
                    THEN Return(s, Result(username, FALSE, "User not found"))
                    ELSE IF AlreadyActive(found)
                    THEN Return(s, Result(username, FALSE, AlreadyActiveMessage))
                    ELSE /\ Goto(s, "act_details")
                         /\ user' = [user EXCEPT ![s] = found]
                         /\ UNCHANGED <<user_data, update_data, teams, team_i>>
  /\ UNCHANGED <<dirActive, request, reply, session>>

\* Lines 119-128: the detail fetch and the payload.
ActDetails(s) ==
  /\ pc[s] = "act_details"
  /\ outstanding[s] > 0
  /\ LET username == usernames[s][row[s]]
         user_id == Get(user[s], "Id", None)
     IN
       \/ /\ Log(s, Call("details", user_id, 0, None, Raised, NoJson))
          /\ Return(s, ActivateError(username, ConnectionErrorText))
       \/ \E status \in Statuses("details") \ {200} :
            /\ Log(s, Call("details", user_id, 0, None, status, NoJson))
            /\ Return(s, Result(username, FALSE,
                                "Failed to get user details: "
                                  \o ResponseText(status)))
       \/ /\ Log(s, Call("details", user_id, 0, None, 200, NoJson))
          /\ Return(s, ActivateError(username, JSONDecodeErrorText))
       \/ \E data \in DetailRecords(user_id, dirActive) :
            /\ Log(s, Call("details", user_id, 0, None, 200, <<data>>))
            /\ Goto(s, "act_update")
            /\ user_data' = [user_data EXCEPT ![s] = data]
            /\ update_data' = [update_data EXCEPT ![s] =
                                 sanitize_user_data(data, TRUE)]
            /\ UNCHANGED <<user, teams, team_i>>
  /\ UNCHANGED <<dirActive, request, reply, session>>

\* Lines 130-135: the update call and the result.
ActUpdate(s) ==
  /\ pc[s] = "act_update"
  /\ outstanding[s] > 0
  /\ LET username == usernames[s][row[s]]
         user_id == Get(user[s], "Id", None)
     IN
       \/ /\ Log(s, Call("update", user_id, 0, update_data[s], Raised, NoJson))
          /\ Return(s, ActivateError(username, ConnectionErrorText))
          /\ UNCHANGED dirActive
       \/ \E status \in Statuses("update") :
            /\ Log(s, Call("update", user_id, 0, update_data[s], status, NoJson))
            /\ IF UpdateOk(status)
               THEN /\ dirActive' = [dirActive EXCEPT ![user_id] =
                                       update_data[s]["Active"]]
                    /\ Return(s, Result(username, TRUE, ActivatedMessage))
               ELSE /\ UNCHANGED dirActive
                    /\ Return(s, Result(username, FALSE,
                                        "Failed to activate user: "
                                          \o ResponseText(status)))
  /\ UNCHANGED <<request, reply, session>>

\* ----------------------------------------------------- deactivate_user
\* Lines 143-158: the search call, the exact match and the duplicate guard.
DeactSearch(s) ==
  /\ pc[s] = "deact_search"
  /\ outstanding[s] > 0
  /\ LET username == usernames[s][row[s]] IN
       \/ /\ Log(s, Call("search", 0, 0, None, Raised, NoJson))
          /\ Return(s, DeactivateError(username, ConnectionErrorText))
       \/ \E status \in Statuses("search") \ {200} :
            /\ Log(s, Call("search", 0, 0, None, status, NoJson))
            /\ Return(s, Result(username, FALSE,
                                "Failed to find user: " \o ResponseText(status)))
       \/ /\ Log(s, Call("search", 0, 0, None, 200, NoJson))
          /\ Return(s, DeactivateError(username, JSONDecodeErrorText))
       \/ \E users \in CandidateLists(dirActive) :
            /\ Log(s, Call("search", 0, 0, None, 200, <<users>>))
            /\ IF MatchRaises(users, username)
               THEN Return(s, DeactivateError(username, AttributeErrorText))
               ELSE LET found == FindUser(users, username) IN
                    IF found = None
                    THEN Return(s, Result(username, FALSE, "User not found"))
                    ELSE IF AlreadyInactive(found)
                    THEN Return(s, Result(username, FALSE, AlreadyInactiveMessage))
                    ELSE /\ Goto(s, "deact_details")
                         /\ user' = [user EXCEPT ![s] = found]
                         /\ UNCHANGED <<user_data, update_data, teams, team_i>>
  /\ UNCHANGED <<dirActive, request, reply, session>>

\* Lines 160-174: the detail fetch and the payload with cleared location.
DeactDetails(s) ==
  /\ pc[s] = "deact_details"
  /\ outstanding[s] > 0
  /\ LET username == usernames[s][row[s]]
         user_id == Get(user[s], "Id", None)
     IN
       \/ /\ Log(s, Call("details", user_id, 0, None, Raised, NoJson))
          /\ Return(s, DeactivateError(username, ConnectionErrorText))
       \/ \E status \in Statuses("details") \ {200} :
            /\ Log(s, Call("details", user_id, 0, None, status, NoJson))
            /\ Return(s, Result(username, FALSE,
                                "Failed to get user details: "
                                  \o ResponseText(status)))
       \/ /\ Log(s, Call("details", user_id, 0, None, 200, NoJson))
          /\ Return(s, DeactivateError(username, JSONDecodeErrorText))
       \/ \E data \in DetailRecords(user_id, dirActive) :
            /\ Log(s, Call("details", user_id, 0, None, 200, <<data>>))
            /\ Goto(s, "deact_update")
            /\ user_data' = [user_data EXCEPT ![s] = data]
            /\ update_data' = [update_data EXCEPT ![s] =
                                 clear_location(sanitize_user_data(data, FALSE))]
            /\ UNCHANGED <<user, teams, team_i>>
  /\ UNCHANGED <<dirActive, request, reply, session>>

\* Lines 175-178: the update call; a failure status ends the operation.
DeactUpdate(s) ==
  /\ pc[s] = "deact_update"
  /\ outstanding[s] > 0
  /\ LET username == usernames[s][row[s]]
         user_id == Get(user[s], "Id", None)
     IN
       \/ /\ Log(s, Call("update", user_id, 0, update_data[s], Raised, NoJson))
          /\ Return(s, DeactivateError(username, ConnectionErrorText))
          /\ UNCHANGED dirActive
       \/ \E status \in Statuses("update") :
            /\ Log(s, Call("update", user_id, 0, update_data[s], status, NoJson))
            /\ IF ~UpdateOk(status)
               THEN /\ UNCHANGED dirActive
                    /\ Return(s, Result(username, FALSE,
                                        "Failed to deactivate user: "
                                          \o ResponseText(status)))
               ELSE /\ dirActive' = [dirActive EXCEPT ![user_id] =
                                       update_data[s]["Active"]]
                    /\ Goto(s, "deact_teams")
                    /\ UNCHANGED locals
  /\ UNCHANGED <<request, reply, session>>

\* Lines 181-184 and 191-198: the team listing; with no team to remove, or
\* with a failure status (a warning), the operation returns success.
DeactTeamsFrom(s, listings) ==
  /\ pc[s] = "deact_teams"
  /\ outstanding[s] > 0
  /\ LET username == usernames[s][row[s]]
         user_id == Get(user[s], "Id", None)
     IN
       \/ /\ Log(s, Call("teams", user_id, 0, None, Raised, NoJson))
          /\ Return(s, DeactivateError(username, ConnectionErrorText))
       \/ \E status \in Statuses("teams") \ {200} :
            /\ Log(s, Call("teams", user_id, 0, None, status, NoJson))
            /\ Return(s, Result(username, TRUE, DeactivatedMessage))
       \/ /\ Log(s, Call("teams", user_id, 0, None, 200, NoJson))
          /\ Return(s, DeactivateError(username, JSONDecodeErrorText))
       \/ \E listing \in listings :
            /\ Log(s, Call("teams", user_id, 0, None, 200, <<listing>>))
            /\ IF listing = <<>>
               THEN Return(s, Result(username, TRUE, DeactivatedMessage))
               ELSE /\ Goto(s, "deact_remove")
                    /\ teams' = [teams EXCEPT ![s] = listing]
                    /\ team_i' = [team_i EXCEPT ![s] = 1]
                    /\ UNCHANGED <<user, user_data, update_data>>
  /\ UNCHANGED <<dirActive, request, reply, session>>

\* The team listing against a directory with any of the team listings.
DeactTeams(s) == DeactTeamsFrom(s, TeamLists)

\* The removal loop trying a team again when its removal was refused.
DeactRemoveRetry(s) ==
  /\ pc[s] = "deact_remove"
  /\ outstanding[s] > 0
  /\ LET username == usernames[s][row[s]]
         user_id == Get(user[s], "Id", None)
         team_id == Get(teams[s][team_i[s]], "Id", None)
     IN
       \/ /\ Log(s, Call("remove", user_id, team_id, None, Raised, NoJson))
          /\ Return(s, DeactivateError(username, ConnectionErrorText))
       \/ \E status \in Statuses("remove") :
            /\ Log(s, Call("remove", user_id, team_id, None, status, NoJson))
            /\ IF ~RemoveOk(status)
               THEN /\ Goto(s, "deact_remove")
                    /\ UNCHANGED <<user, user_data, update_data, teams, team_i>>
               ELSE IF team_i[s] = Len(teams[s])
               THEN Return(s, Result(username, TRUE, DeactivatedMessage))
               ELSE /\ Goto(s, "deact_remove")
                    /\ team_i' = [team_i EXCEPT ![s] = @ + 1]
                    /\ UNCHANGED <<user, user_data, update_data, teams>>
  /\ UNCHANGED <<dirActive, request, reply, session>>

\* Lines 185-190 and 194-198: one removal call; after the last team the
\* operation returns success, whatever the removals returned.
DeactRemove(s) ==
  /\ pc[s] = "deact_remove"
  /\ outstanding[s] > 0
  /\ LET username == usernames[s][row[s]]
         user_id == Get(user[s], "Id", None)
         team_id == Get(teams[s][team_i[s]], "Id", None)
     IN
       \/ /\ Log(s, Call("remove", user_id, team_id, None, Raised, NoJson))
          /\ Return(s, DeactivateError(username, ConnectionErrorText))
       \/ \E status \in Statuses("remove") :
            /\ Log(s, Call("remove", user_id, team_id, None, status, NoJson))
            /\ IF team_i[s] = Len(teams[s])
               THEN Return(s, Result(username, TRUE, DeactivatedMessage))
               ELSE /\ Goto(s, "deact_remove")
                    /\ team_i' = [team_i EXCEPT ![s] = @ + 1]
                    /\ UNCHANGED <<user, user_data, update_data, teams>>
  /\ UNCHANGED <<dirActive, request, reply, session>>

\* ------------------------------------------------------- specification
Step(s) ==
  \/ Request(s)
  \/ LoopActivate(s)
  \/ LoopDeactivate(s)
  \/ LoopInvalid(s)
  \/ Finish(s)
  \/ Send(s)
  \/ ActSearch(s)
  \/ ActDetails(s)
  \/ ActUpdate(s)
  \/ DeactSearch(s)
  \/ DeactDetails(s)
  \/ DeactUpdate(s)
  \/ DeactTeams(s)
  \/ DeactRemove(s)

Next == \E s \in BatchSessions : Step(s)

Spec == Init /\ [][Next]_vars

\* The request handler keeps running and every remote call returns.
Fairness == \A s \in BatchSessions : WF_vars(Step(s))

SpecLive == Spec /\ Fairness

\* ------------------------------------------- two concurrent sessions
\* Two browser sessions each post one batch of one username; the requests
\* are served concurrently and their remote calls interleave. The users
\* of this directory are members of no team.
ConcOperations == {"activation", "deactivation"}
ConcUsernames == Usernames \ {NaN}

\* Lines 56-75 for an upload that passes every validation.
RequestConc(s) ==
  /\ pc[s] = "idle"
  /\ \E op \in ConcOperations, name \in ConcUsernames :
       /\ operation_type' = [operation_type EXCEPT ![s] = op]
       /\ usernames' = [usernames EXCEPT ![s] = <<name>>]
  /\ pc' = [pc EXCEPT ![s] = "loop"]
  /\ results' = [results EXCEPT ![s] = <<>>]
  /\ row' = [row EXCEPT ![s] = 1]
  /\ calls' = [calls EXCEPT ![s] = <<>>]
  /\ warnings' = [warnings EXCEPT ![s] = <<>>]
  /\ UNCHANGED <<dirActive, locals, outstanding, reply, session>>

StepConc(s) ==
  \/ RequestConc(s)
  \/ LoopActivate(s)
  \/ LoopDeactivate(s)
  \/ Finish(s)
  \/ Send(s)
  \/ ActSearch(s)
  \/ ActDetails(s)
  \/ ActUpdate(s)
  \/ DeactSearch(s)
  \/ DeactDetails(s)
  \/ DeactUpdate(s)
  \/ DeactTeamsFrom(s, {<<>>})

NextConc == \E s \in Sessions : StepConc(s)

SpecConc == Init /\ [][NextConc]_vars

\* ------------------------------------------------------------ properties
\* The operation of the row in hand has returned and its result is appended.
RowEnded(s) == pc[s] = "loop" /\ row[s] > 1
LastResult(s) == results[s][row[s] - 1]

\* The username of the row whose calls are in the log.
RowUsername(s) ==
  IF pc[s] = "loop" THEN usernames[s][row[s] - 1] ELSE usernames[s][row[s]]

ValidOperations == {"activation", "deactivation"}
AllowList == {"Id", "FirstName", "LastName", "Email", "Active", "UserName"}
LocationFields == {"Region", "Area", "Country"}
UpdateSuccess == {200, 201, 204}

\* The search of the row returned 200 with a list of candidates.
SearchListed(s) ==
  /\ calls[s] # <<>>
  /\ calls[s][1].kind = "search"
  /\ calls[s][1].status = 200
  /\ calls[s][1].got # <<>>
Candidates(s) == calls[s][1].got[1]

\* Positions of the candidates whose UserName is the username, ignoring case.
ExactMatches(s) ==
  {i \in 1..Len(Candidates(s)) :
     /\ RowUsername(s) # NaN
     /\ Lower(Candidates(s)[i].UserName) = Lower(RowUsername(s))}
SearchFound(s) == SearchListed(s) /\ ExactMatches(s) # {}
Matched(s) ==
  Candidates(s)[CHOOSE i \in ExactMatches(s) : \A j \in ExactMatches(s) : i <= j]

\* The row is a duplicate: the user found is already in the requested state.
Duplicate(s) ==
  /\ SearchFound(s)
  /\ \/ operation_type[s] = "activation" /\ Matched(s).Active
     \/ operation_type[s] = "deactivation" /\ ~Matched(s).Active

\* C1: for a valid operation type the batch yields exactly one result per
\* input row, in input order, the i-th result carrying the i-th username,
\* whatever the remote calls returned or raised.
C1_OneResultPerRow ==
  \A s \in Sessions :
    /\ Len(results[s]) = row[s] - 1
    /\ \A i \in 1..Len(results[s]) : results[s][i].username = usernames[s][i]
    /\ (pc[s] = "done" /\ operation_type[s] \in ValidOperations
          /\ reply[s].code \notin {400, 500})
         => /\ reply[s].code = 200
            /\ reply[s].results = results[s]
            /\ Len(reply[s].results) = Len(usernames[s])
    /\ (pc[s] = "done" /\ operation_type[s] \in ValidOperations
          /\ usernames[s] # <<>>)
         => reply[s].code = 200

\* A batch of two rows is complete although the first row's call raised.
C1_Witness ==
  \E s \in Sessions :
    /\ pc[s] = "done"
    /\ reply[s].code = 200
    /\ Len(reply[s].results) >= 2
    /\ reply[s].results[1].message = "Error: connection failed"
    /\ reply[s].results[2].success

\* C2: activating a user the search reports as active yields success=false
\* with the duplicate-activation message; deactivating a user it reports as
\* inactive yields success=false with the duplicate-deactivation message.
C2_DuplicateRefused ==
  \A s \in Sessions :
    (RowEnded(s) /\ Duplicate(s)) =>
      /\ LastResult(s).success = FALSE
      /\ operation_type[s] = "activation" =>
           LastResult(s).message =
             "Error: User is already active. Duplicate activation attempt."
      /\ operation_type[s] = "deactivation" =>
           LastResult(s).message =
             "Error: User is already inactive. Duplicate deactivation attempt."

\* A deactivation row has ended on a user who was found inactive.
C2_Witness ==
  \E s \in Sessions :
    /\ RowEnded(s)
    /\ operation_type[s] = "deactivation"
    /\ Duplicate(s)
    /\ ~LastResult(s).success

\* C3: for a duplicate row no update, team listing or team removal call is
\* issued: the calls are one search and at most one detail fetch.
C3_DuplicateIssuesNoUpdate ==
  \A s \in Sessions :
    Duplicate(s) =>
      /\ \A i \in 1..Len(calls[s]) : calls[s][i].kind \in {"search", "details"}
      /\ Cardinality({i \in 1..Len(calls[s]) : calls[s][i].kind = "search"}) = 1
      /\ Cardinality({i \in 1..Len(calls[s]) : calls[s][i].kind = "details"}) <= 1
      /\ RowEnded(s)

\* An activation row has ended on a user who was found active, after the
\* search alone.
C3_Witness ==
  \E s \in Sessions :
    /\ RowEnded(s)
    /\ operation_type[s] = "activation"
    /\ Duplicate(s)
    /\ Len(calls[s]) = 1

\* C4: once the update of a deactivation returned a success status, the row's
\* result is success=true, however the team listing or a team removal failed.
C4_SoftFailureAbsorbed ==
  \A s \in Sessions :
    (/\ RowEnded(s)
     /\ operation_type[s] = "deactivation"
     /\ \E i \in 1..Len(calls[s]) :
          calls[s][i].kind = "update" /\ calls[s][i].status \in UpdateSuccess)
      => LastResult(s).success = TRUE

\* C5: a batch whose operation type is not recognised ends in a batch-level
\* error with no per-row result and no remote call, for every username list.
C5_InvalidOperationRejected ==
  \A s \in Sessions :
    (pc[s] = "done" /\ operation_type[s] \notin ValidOperations) =>
      /\ reply[s].success = FALSE
      /\ reply[s].code >= 400
      /\ reply[s].error # ""
      /\ reply[s].results = <<>>
      /\ calls[s] = <<>>

\* The result an operation yields from the replies to its own calls alone:
\* the reply to its last call decides it.
OperationOutcome(op, username, log) ==
  LET last == log[Len(log)]
      text == ResponseText(last.status)
      fail(message) ==
        [username |-> username, success |-> FALSE, message |-> message]
      done(message) ==
        [username |-> username, success |-> TRUE, message |-> message]
      deactivated ==
        done("User deactivated, removed from all teams, and profile data cleared")
  IN CASE last.status = Raised -> fail("Error: connection failed")
       [] last.status = 200 /\ last.kind \in {"search", "details", "teams"}
            /\ last.got = <<>> -> fail("Error: Expecting value")
       [] last.status # Raised /\ last.kind = "search" /\ last.status # 200 ->
            fail("Failed to find user: " \o text)
       [] last.kind = "search" /\ last.status = 200 /\ last.got # <<>> ->
            LET users == last.got[1]
                hits == {i \in 1..Len(users) :
                           username # NaN
                             /\ Lower(users[i].UserName) = Lower(username)}
            IN IF username = NaN /\ users # <<>>
               THEN fail("Error: 'float' object has no attribute 'lower'")
               ELSE IF hits = {} THEN fail("User not found")
               ELSE IF op = "activation"
               THEN fail("Error: User is already active. Duplicate activation attempt.")
               ELSE fail("Error: User is already inactive. Duplicate deactivation attempt.")
       [] last.status # Raised /\ last.kind = "details" /\ last.status # 200 ->
            fail("Failed to get user details: " \o text)
       [] last.status # Raised /\ last.kind = "update" ->
            IF last.status \in UpdateSuccess
            THEN done("User activated successfully")
            ELSE IF op = "activation"
            THEN fail("Failed to activate user: " \o text)
            ELSE fail("Failed to deactivate user: " \o text)
       [] OTHER -> deactivated

\* C6: a row that fails, at whatever step, neither ends the batch nor touches
\* the other rows: each row starts with its own search, its result is the one
\* its own calls give, the earlier results stay as they are and the loop goes
\* on to the next username.
C6_FailureIsolated ==
  [][\A s \in Sessions :
       Len(results'[s]) > Len(results[s]) =>
         /\ calls'[s] # <<>>
         /\ calls'[s][1].kind = "search"
         /\ results'[s] =
              Append(results[s],
                     OperationOutcome(operation_type[s],
                                      usernames[s][row[s]], calls'[s]))
         /\ row'[s] = row[s] + 1
         /\ pc'[s] = "loop"]_vars

\* The second row has succeeded after the update of the first row failed.
C6_Witness ==
  \E s \in Sessions :
    /\ RowEnded(s)
    /\ row[s] = 3
    /\ results[s][1].message = "Failed to activate user: Internal Server Error"
    /\ results[s][2].success

\* C7 as stated: no update payload has a field outside the allow-list.
C7_OnlyAllowListSent ==
  \A s \in Sessions :
    \A i \in 1..Len(calls[s]) :
      calls[s][i].kind = "update" => DOMAIN calls[s][i].sent \subseteq AllowList

\* C7: an update payload of activate_user has no field outside the
\* allow-list, and one of deactivate_user has no field outside the allow-list
\* and the three location fields, whatever the fetched record contains.
C7_PayloadFields ==
  \A s \in Sessions :
    \A i \in 1..Len(calls[s]) :
      calls[s][i].kind = "update" =>
        DOMAIN calls[s][i].sent \subseteq
          AllowList \cup (IF operation_type[s] = "deactivation"
                          THEN LocationFields ELSE {})

\* An update has been sent for a fetched record that has a field outside the
\* allow-list and the location fields.
C7_Witness ==
  \E s \in Sessions :
    \E i \in 2..Len(calls[s]) :
      /\ calls[s][i].kind = "update"
      /\ operation_type[s] = "deactivation"
      /\ "AccessLevel" \in DOMAIN calls[s][i - 1].got[1]
      /\ "AccessLevel" \notin DOMAIN calls[s][i].sent

\* C8: the payload built for a deactivation has Active false and the three
\* location fields empty; the payload built for an activation has Active true
\* and no location field; every other allow-listed field is in the payload
\* exactly when the fetched record has it, with the record's value.
C8_SanitizeValues ==
  \A s \in Sessions :
    \A i \in 2..Len(calls[s]) :
      calls[s][i].kind = "update" =>
        LET record == calls[s][i - 1].got[1]
            payload == calls[s][i].sent
        IN /\ calls[s][i - 1].kind = "details"
           /\ operation_type[s] = "deactivation" =>
                /\ payload["Active"] = FALSE
                /\ \A k \in LocationFields :
                     k \in DOMAIN payload /\ payload[k] = ""
           /\ operation_type[s] = "activation" =>
                /\ payload["Active"] = TRUE
                /\ DOMAIN payload \cap LocationFields = {}
           /\ \A k \in AllowList \ {"Active"} :
                IF k \in DOMAIN record
                THEN k \in DOMAIN payload /\ payload[k] = record[k]
                ELSE k \notin DOMAIN payload

\* A deactivation payload has been sent for a record with a location.
C8_Witness ==
  \E s \in Sessions :
    \E i \in 2..Len(calls[s]) :
      /\ calls[s][i].kind = "update"
      /\ operation_type[s] = "deactivation"
      /\ "Country" \in DOMAIN calls[s][i - 1].got[1]
      /\ calls[s][i - 1].got[1]["Country"] # ""
      /\ "LastName" \in DOMAIN calls[s][i].sent

C10_UpdateFailureSkipsCleanup ==
  \A s \in Sessions :
    (/\ operation_type[s] = "deactivation"
     /\ \E i \in 1..Len(calls[s]) :
          /\ calls[s][i].kind = "update"
          /\ calls[s][i].status \notin UpdateSuccess \cup {Raised})
      => /\ \A j \in 1..Len(calls[s]) :
              calls[s][j].kind \notin {"teams", "remove"}
         /\ RowEnded(s)
         /\ ~LastResult(s).success

\* A deactivation row has ended on an update that returned 500.
C10_Witness ==
  \E s \in Sessions :
    /\ RowEnded(s)
    /\ operation_type[s] = "deactivation"
    /\ Len(calls[s]) = 3
    /\ calls[s][3].kind = "update"
    /\ calls[s][3].status = 500

\* Positions of the row's calls of a kind.
CallsOf(s, kind) == {i \in 1..Len(calls[s]) : calls[s][i].kind = kind}

\* Positions of the candidates whose UserName equals the requested username
\* ignoring case; a username that is not a string equals none.
EqualIgnoringCase(s) ==
  {i \in 1..Len(Candidates(s)) :
     IF RowUsername(s) = NaN THEN FALSE
     ELSE Lower(Candidates(s)[i].UserName) = Lower(RowUsername(s))}

\* C11: the lookup takes the first candidate, in the returned order, whose
\* UserName equals the requested username ignoring case, whatever precedes
\* it; when no candidate matches, the operation ends with "User not found"
\* and no further call.
C11_FirstExactMatch ==
  \A s \in Sessions :
    SearchListed(s) =>
      IF EqualIgnoringCase(s) = {}
      THEN /\ RowEnded(s)
           /\ Len(calls[s]) = 1
           /\ LastResult(s).success = FALSE
           /\ LastResult(s).message = "User not found"
      ELSE LET first == CHOOSE i \in EqualIgnoringCase(s) :
                          \A j \in EqualIgnoringCase(s) : i <= j
               chosen == Candidates(s)[first]
           IN /\ \A i \in 2..Len(calls[s]) : calls[s][i].id = chosen.Id
              /\ (Len(calls[s]) = 1 /\ ~RowEnded(s)) => user[s] = chosen

\* C12: an update is the third call of its row, after a search that returned
\* 200 with an exact match that passed the duplicate guard and a detail fetch
\* that returned 200; a team listing or removal comes only after an update of
\* the row that returned a success status.
C12_NoMutationBeforeUpdate ==
  \A s \in Sessions :
    \A i \in 1..Len(calls[s]) :
      /\ calls[s][i].kind = "update" =>
           /\ i = 3
           /\ SearchFound(s)
           /\ ~Duplicate(s)
           /\ calls[s][2].kind = "details"
           /\ calls[s][2].status = 200
           /\ calls[s][2].got # <<>>
      /\ calls[s][i].kind \in {"teams", "remove"} =>
           \E j \in 1..(i - 1) :
             /\ calls[s][j].kind = "update"
             /\ calls[s][j].status \in UpdateSuccess

\* A team has been removed after a successful update.
C12_Witness ==
  \E s \in Sessions :
    /\ Len(calls[s]) = 5
    /\ calls[s][3].kind = "update"
    /\ calls[s][3].status = 204
    /\ calls[s][5].kind = "remove"

\* C13: no step is retried: a row has at most one search, one detail fetch,
\* one update and one team listing, and at most one removal per listed team,
\* whatever the calls return.
C13_NoRetry ==
  \A s \in Sessions :
    /\ \A kind \in {"search", "details", "update", "teams"} :
         Cardinality(CallsOf(s, kind)) <= 1
    /\ \A i \in CallsOf(s, "remove"), j \in CallsOf(s, "remove") :
         calls[s][i].team = calls[s][j].team => i = j
    /\ \A i \in CallsOf(s, "remove") :
         \E k \in CallsOf(s, "teams") :
           /\ calls[s][k].got # <<>>
           /\ \E n \in 1..Len(calls[s][k].got[1]) :
                calls[s][k].got[1][n].Id = calls[s][i].team

\* A row has gone on after a removal that returned 500 and after calls of
\* every kind.
C13_Witness ==
  \E s \in Sessions :
    /\ Len(calls[s]) = 6
    /\ calls[s][5].kind = "remove"
    /\ calls[s][5].status = 500
    /\ calls[s][6].kind = "remove"
    /\ RowEnded(s)

\* C14: once the team listing of a deactivation has returned its teams, a
\* removal is attempted for every one of them, in listing order, however the
\* removals before it ended.
C14_EveryTeamAttempted ==
  \A s \in Sessions :
    (/\ RowEnded(s)
     /\ CallsOf(s, "teams") # {}
     /\ calls[s][4].status = 200
     /\ calls[s][4].got # <<>>)
      => LET listing == calls[s][4].got[1]
         IN /\ Len(calls[s]) = 4 + Len(listing)
            /\ \A n \in 1..Len(listing) :
                 /\ calls[s][4 + n].kind = "remove"
                 /\ calls[s][4 + n].team = listing[n].Id

\* C15: the usernames are processed strictly in input order: a remote call
\* is issued only for the row that follows the rows already reported and only
\* when no call of the batch is outstanding, and a row's result is appended,
\* carrying that row's username, when none of its calls is outstanding.
C15_StrictOrder ==
  [][\A s \in Sessions :
       /\ outstanding'[s] \in {0, 1}
       /\ outstanding'[s] > outstanding[s] =>
            /\ outstanding[s] = 0
            /\ row[s] \in 1..Len(usernames[s])
            /\ Len(results[s]) = row[s] - 1
            /\ UNCHANGED <<results, row>>
       /\ Len(results'[s]) > Len(results[s]) =>
            /\ outstanding'[s] = 0
            /\ row'[s] = row[s] + 1
            /\ Len(results'[s]) = row[s]
            /\ SubSeq(results'[s], 1, row[s] - 1) = results[s]
            /\ results'[s][row[s]].username = usernames[s][row[s]]]_vars

\* A call of the second row is outstanding after the first row was reported.
C15_Witness ==
  \E s \in Sessions :
    /\ outstanding[s] = 1
    /\ row[s] = 2
    /\ Len(results[s]) = 1
    /\ Len(calls[s]) >= 1

\* C16: when every remote call returns, a batch with a valid operation type
\* ends with status 200 and a result table that has one row per input
\* username, in input order.
C16_BatchTerminates ==
  \A s \in BatchSessions :
    (pc[s] = "loop" /\ operation_type[s] \in ValidOperations)
      ~> (/\ pc[s] = "done"
          /\ reply[s].code = 200
          /\ Len(reply[s].results) = Len(usernames[s])
          /\ \A i \in 1..Len(usernames[s]) :
               reply[s].results[i].username = usernames[s][i])

\* A batch of two rows has ended with a failed row in its table.
C16_Witness ==
  \E s \in BatchSessions :
    /\ pc[s] = "done"
    /\ operation_type[s] \in ValidOperations
    /\ reply[s].code = 200
    /\ Len(reply[s].results) = 2
    /\ \E i \in 1..2 : ~reply[s].results[i].success

\* Sessions s and t apply the same operation to the same user.
SameOperation(s, t) ==
  /\ s # t
  /\ row[s] = 1 /\ row[t] = 1
  /\ usernames[s] # <<>> /\ usernames[t] # <<>>
  /\ operation_type[s] = operation_type[t]
  /\ Lower(usernames[s][1]) = Lower(usernames[t][1])

\* The operation of session s on its only row has reported success.
Succeeded(s) == Len(results[s]) = 1 /\ results[s][1].success

\* The update of session s has returned a success status.
UpdateSucceeded(s) ==
  \/ Succeeded(s)
  \/ \E i \in 1..Len(calls[s]) :
       calls[s][i].kind = "update" /\ calls[s][i].status \in UpdateSuccess

DuplicateMessage(s) ==
  IF operation_type[s] = "activation"
  THEN AlreadyActiveMessage ELSE AlreadyInactiveMessage

RepeatsSucceeded(s) ==
  /\ RowEnded(s)
  /\ \E j \in 1..(row[s] - 2) :
       /\ usernames[s][j] = RowUsername(s)
       /\ results[s][j].success

\* C18: a username that occurs again in a batch after an occurrence that
\* succeeded is processed again, not skipped: its row is a failure without an
\* update call, and when its search returns the user the failure is the
\* duplicate message after that one call.
C18_SecondOccurrenceRefused ==
  \A s \in Sessions :
    RepeatsSucceeded(s) =>
      /\ Len(results[s]) = row[s] - 1
      /\ Len(calls[s]) >= 1
      /\ calls[s][1].kind = "search"
      /\ LastResult(s).username = RowUsername(s)
      /\ LastResult(s).success = FALSE
      /\ CallsOf(s, "update") = {}
      /\ SearchFound(s) =>
           /\ Len(calls[s]) = 1
           /\ LastResult(s).message =
                (IF operation_type[s] = "activation"
                 THEN AlreadyActiveMessage ELSE AlreadyInactiveMessage)

\* "alice" was activated by the first row and refused by the second.
C18_Witness ==
  \E s \in Sessions :
    /\ RepeatsSucceeded(s)
    /\ operation_type[s] = "activation"
    /\ usernames[s] = <<"alice", "alice">>
    /\ results[s][1].success
    /\ SearchFound(s)
    /\ results[s][2].message = AlreadyActiveMessage

\* C19: a row reported with success=false changed nothing: none of its
\* update calls returned a success status and it issued no team removal.
C19_FailureChangedNothing ==
  \A s \in Sessions :
    (RowEnded(s) /\ ~LastResult(s).success) =>
      /\ \A i \in CallsOf(s, "update") : calls[s][i].status \notin UpdateSuccess
      /\ CallsOf(s, "remove") = {}

\* The tag process_csv should store for an operation type.
OperationTag(op) == IF op = "activation" THEN "Activation" ELSE "Deactivation"

\* C20: a request that ends with status 200 was a batch of a valid operation
\* type and stores its results with the tag of that operation; a request
\* that ends with a batch-level error leaves the session as it was.
C20_SessionHoldsLastBatch ==
  [][\A s \in Sessions :
       (pc[s] # "done" /\ pc'[s] = "done") =>
         IF reply'[s].code = 200
         THEN /\ operation_type[s] \in ValidOperations
              /\ session'[s] = [results |-> results[s],
                                operation_type |-> OperationTag(operation_type[s])]
         ELSE session'[s] = session[s]]_vars

====
